---- MODULE Spec2Model ----
(***************************************************************************)
(* Model of the AWS network composition function (Function.RunFunction,    *)
(* formatCIDR, formatSubnetName) of configuration-aws-network-ts.          *)
(*                                                                         *)
(* Text values are sequences of one-character strings, so that formatCIDR  *)
(* can be computed character by character and resource keys are built by   *)
(* concatenation, as the template literals of the source build them.       *)
(* A JavaScript `undefined` is the value Undefined.                        *)
(***************************************************************************)
EXTENDS Integers, Sequences, FiniteSets, TLC

VARIABLES
  intent,     \* the observed composite resource (the network intent), fixed
  bad,        \* build position whose validate() throws, 0 when none does
  req,        \* the request object in flight: observed ids and desired state
  rsp,        \* the response returned by the last RunFunction on req
  published,  \* the status a merging caller has published so far
  calls       \* the last two calls of a helper function, with their results

vars == <<intent, bad, req, rsp, published, calls>>

----------------------------------------------------------------------------
(* Bounds of the model *)

MaxSubnets == 2

----------------------------------------------------------------------------
(* Text constants *)

Undefined == <<"<undefined>">>

T_undefined == <<"u","n","d","e","f","i","n","e","d">>
T_public == <<"p","u","b","l","i","c">>
T_private == <<"p","r","i","v","a","t","e">>
T_dash == <<"-">>
\* the prefix of the association keys used for the subnet keys as well
T_subnetPrefix_Rta == <<"r","t","a","-">>
T_subnetPrefix == <<"s","u","b","n","e","t","-">>
T_rtaPrefix == <<"r","t","a","-">>
T_star == <<"*">>
T_default == <<"d","e","f","a","u","l","t">>
T_anyCidr == <<"0",".","0",".","0",".","0","/","0">>
T_tcp == <<"t","c","p">>
T_ingress == <<"i","n","g","r","e","s","s">>
T_one == <<"1">>

K_vpc == <<"v","p","c">>
K_igw == <<"i","g","w">>
K_rt == <<"r","t">>
K_mrta == <<"m","r","t","a">>
K_route == <<"r","o","u","t","e">>
K_sg == <<"s","g">>
K_sgrPostgres == <<"s","g","r","-","p","o","s","t","g","r","e","s">>
K_sgrMysql == <<"s","g","r","-","m","y","s","q","l">>

FixedKeys ==
  {K_vpc, K_igw, K_rt, K_mrta, K_route, K_sg, K_sgrPostgres, K_sgrMysql}

PostgresPort == 5432
MysqlPort == 3306

L_networkId == "networks.aws.platform.upbound.io/network-id"
L_internalElb == "kubernetes.io/role/internal-elb"
L_elb == "kubernetes.io/role/elb"

----------------------------------------------------------------------------
(* JavaScript helpers *)

\* a || b on text: the empty string and undefined are falsy
OrElse(a, b) == IF a = Undefined \/ a = <<>> THEN b ELSE a

\* `${v}`: undefined is rendered as the text "undefined"
Interpolate(v) == IF v = Undefined THEN T_undefined ELSE v

\* toJSON of an object whose values are texts: undefined members are omitted
OmitUndefined(o) == [k \in {x \in DOMAIN o : o[x] # Undefined} |-> o[k]]

\* { ...a, ...b }: the members of b override those of a
Spread(a, b) == [k \in DOMAIN a \cup DOMAIN b |-> IF k \in DOMAIN b THEN b[k] ELSE a[k]]

EmptyObject == [k \in {} |-> Undefined]

----------------------------------------------------------------------------
(* Naming function *)

\* a pattern that leaves out the slash
formatCIDR_DotsOnly(cidr) ==
  [i \in 1..Len(cidr) |-> IF cidr[i] = "." THEN "-" ELSE cidr[i]]

\* a pattern without the g flag: only the first separator is replaced
formatCIDR_FirstOnly(cidr) ==
  LET seps == {i \in 1..Len(cidr) : cidr[i] \in {".", "/"}} IN
    [i \in 1..Len(cidr) |->
       IF i \in seps /\ (\A j \in seps : i <= j) THEN "-" ELSE cidr[i]]

\* cidr.replace(/[./]/g, '-')
formatCIDR(cidr) ==
  [i \in 1..Len(cidr) |-> IF cidr[i] \in {".", "/"} THEN "-" ELSE cidr[i]]

\* cidr.replace is a method call: it throws a TypeError on undefined
formatCIDRThrows(cidr) == cidr = Undefined

\* `${availabilityZone}-${formatCIDR(cidr)}-${type}`
formatSubnetName(subnet) ==
  Interpolate(subnet.availabilityZone) \o T_dash \o formatCIDR(subnet.cidrBlock)
    \o T_dash \o Interpolate(subnet.type)

SubnetKey(subnet) == T_subnetPrefix \o formatSubnetName(subnet)

RtaKey(subnet) == T_rtaPrefix \o formatSubnetName(subnet)

----------------------------------------------------------------------------
(* The intent: observedComposite.resource.  params is FALSE when            *)
(* spec.parameters is absent, and then every parameter is Undefined.        *)

Param(xr, field) == IF xr.params THEN xr[field] ELSE Undefined

\* spec?.parameters?.subnets || []: an absent list is the empty list
Subnets(xr) == IF xr.params THEN xr.subnets ELSE <<>>

\* spec?.parameters.id dereferences parameters without ?. (commonMetadata)
commonMetadataThrows(xr) == ~xr.params

\* { ...(namespace && { namespace }), labels: { network-id: parameters.id } }
commonMetadata(xr) ==
  Spread(IF OrElse(xr.namespace, Undefined) # Undefined
           THEN [k \in {"namespace"} |-> xr.namespace]
           ELSE EmptyObject,
         [k \in {"labels"} |-> [l \in {L_networkId} |-> Param(xr, "id")]])

\* managementPolicies || ['*'], providerConfigRef.name: providerConfigName || 'default'
commonSpec(xr) ==
  [managementPolicies |->
     IF Param(xr, "managementPolicies") = Undefined
       THEN <<T_star>> ELSE Param(xr, "managementPolicies"),
   providerConfigRef |->
     [kind |-> "ProviderConfig",
      name |-> OrElse(Param(xr, "providerConfigName"), T_default)]]

ApiVersion == "ec2.aws.m.upbound.io/v1beta1"

\* Resource.fromJSON({ resource: model.toJSON() }): the labels keep only the
\* members that are defined
Resource(kind, metadata, spec, forProvider) ==
  [apiVersion |-> ApiVersion,
   kind |-> kind,
   metadata |-> Spread(metadata, [k \in {"labels"} |-> OmitUndefined(metadata["labels"])]),
   spec |-> [managementPolicies |-> spec.managementPolicies,
             providerConfigRef |-> spec.providerConfigRef,
             forProvider |-> forProvider]]

Controller == [matchControllerRef |-> TRUE]

vpc(xr) ==
  Resource("VPC", commonMetadata(xr), commonSpec(xr),
    [cidrBlock |-> Param(xr, "vpcCidrBlock"),
     enableDnsHostnames |-> TRUE,
     enableDnsSupport |-> TRUE,
     region |-> Param(xr, "region"),
     tags |-> OmitUndefined([t \in {"Name"} |-> xr.name])])

igw(xr) ==
  Resource("InternetGateway", commonMetadata(xr), commonSpec(xr),
    [region |-> Param(xr, "region"), vpcIdSelector |-> Controller])

\* tags of a Subnet: subnet.type === 'private' ? internal-elb : elb + network-id
SubnetTags(xr, subnet) ==
  IF subnet.type = T_private
    THEN [t \in {L_internalElb} |-> T_one]
    ELSE [t \in {L_elb, L_networkId} |->
            IF t = L_elb THEN T_one ELSE Param(xr, "id")]

\* labels of a Subnet: access: type || 'private', zone, network-id
SubnetLabels(xr, subnet) ==
  [l \in {"access", "zone", L_networkId} |->
     CASE l = "access" -> OrElse(subnet.type, T_private)
       [] l = "zone" -> subnet.availabilityZone
       [] OTHER -> Param(xr, "id")]

\* a Subnet whose metadata is its labels alone, without the common metadata
s_LabelsOnly(xr, subnet) ==
  Resource("Subnet",
    [k \in {"labels"} |-> SubnetLabels(xr, subnet)],
    commonSpec(xr),
    [availabilityZone |-> subnet.availabilityZone,
     cidrBlock |-> subnet.cidrBlock,
     mapPublicIpOnLaunch |-> (subnet.type = T_public),
     region |-> Param(xr, "region"),
     tags |-> OmitUndefined(SubnetTags(xr, subnet)),
     vpcIdSelector |-> Controller])

s(xr, subnet) ==
  Resource("Subnet",
    Spread(commonMetadata(xr), [k \in {"labels"} |-> SubnetLabels(xr, subnet)]),
    commonSpec(xr),
    [availabilityZone |-> subnet.availabilityZone,
     cidrBlock |-> subnet.cidrBlock,
     mapPublicIpOnLaunch |-> (subnet.type = T_public),
     region |-> Param(xr, "region"),
     tags |-> OmitUndefined(SubnetTags(xr, subnet)),
     vpcIdSelector |-> Controller])

\* subnetIdSelector.matchLabels: access: type === 'private' ? 'private' : 'public'
RtaMatchLabels(subnet) ==
  OmitUndefined(
    [l \in {"access", "zone"} |->
       IF l = "access"
         THEN (IF subnet.type = T_private THEN T_private ELSE T_public)
         ELSE subnet.availabilityZone])

rta(xr, subnet) ==
  Resource("RouteTableAssociation", commonMetadata(xr), commonSpec(xr),
    [region |-> Param(xr, "region"),
     routeTableIdSelector |-> Controller,
     subnetIdSelector |->
       [matchControllerRef |-> TRUE, matchLabels |-> RtaMatchLabels(subnet)]])

rt(xr) ==
  Resource("RouteTable", commonMetadata(xr), commonSpec(xr),
    [region |-> Param(xr, "region"), vpcIdSelector |-> Controller])

mrta(xr) ==
  Resource("MainRouteTableAssociation", commonMetadata(xr), commonSpec(xr),
    [region |-> Param(xr, "region"),
     routeTableIdSelector |-> Controller,
     vpcIdSelector |-> Controller])

route(xr) ==
  Resource("Route", commonMetadata(xr), commonSpec(xr),
    [destinationCidrBlock |-> T_anyCidr,
     region |-> Param(xr, "region"),
     gatewayIdSelector |-> Controller,
     routeTableIdSelector |-> Controller])

sg(xr) ==
  Resource("SecurityGroup", commonMetadata(xr), commonSpec(xr),
    [name |-> "platform-ref-aws-cluster",
     description |-> "Allow access to databases",
     region |-> Param(xr, "region"),
     vpcIdSelector |-> Controller])

SecurityGroupRule(xr, port) ==
  Resource("SecurityGroupRule", commonMetadata(xr), commonSpec(xr),
    [cidrBlocks |-> <<T_anyCidr>>,
     fromPort |-> port,
     description |-> "Everywhere",
     securityGroupIdSelector |-> Controller,
     protocol |-> T_tcp,
     region |-> Param(xr, "region"),
     toPort |-> port,
     type |-> T_ingress])

sgrPostgres(xr) == SecurityGroupRule(xr, PostgresPort)

\* a rule copied from the PostgreSQL one with its ports left as they were
sgrMysql_PostgresPort(xr) == SecurityGroupRule(xr, PostgresPort)

sgrMysql(xr) == SecurityGroupRule(xr, MysqlPort)

----------------------------------------------------------------------------
(* The build order of RunFunction: one step per validate() call.  A step   *)
(* whose throws is TRUE raises before its resource is stored.               *)

Step(key, resource, throws) == [key |-> key, resource |-> resource, throws |-> throws]

\* a loop that stores the association under the subnet's key
SubnetSteps_RtaUnderSubnetKey(xr) ==
  LET subs == Subnets(xr) IN
    [j \in 1..(2 * Len(subs)) |->
       LET subnet == subs[(j + 1) \div 2] IN
         IF j % 2 = 1
           THEN Step(SubnetKey(subnet), s(xr, subnet), formatCIDRThrows(subnet.cidrBlock))
           ELSE Step(SubnetKey(subnet), rta(xr, subnet), FALSE)]

\* for (const subnet of subnets): name, Subnet, store, (status), rta, store
SubnetSteps(xr) ==
  LET subs == Subnets(xr) IN
    [j \in 1..(2 * Len(subs)) |->
       LET subnet == subs[(j + 1) \div 2] IN
         IF j % 2 = 1
           THEN Step(SubnetKey(subnet), s(xr, subnet), formatCIDRThrows(subnet.cidrBlock))
           ELSE Step(RtaKey(subnet), rta(xr, subnet), FALSE)]

BuildSteps(xr) ==
  <<Step(K_vpc, vpc(xr), FALSE), Step(K_igw, igw(xr), FALSE)>>
    \o SubnetSteps(xr)
    \o <<Step(K_rt, rt(xr), FALSE), Step(K_mrta, mrta(xr), FALSE),
         Step(K_route, route(xr), FALSE), Step(K_sg, sg(xr), FALSE),
         Step(K_sgrPostgres, sgrPostgres(xr), FALSE),
         Step(K_sgrMysql, sgrMysql(xr), FALSE)>>

\* the validator's verdict: validate() throws at build position b
validateThrows(b, i) == i = b

\* position of the first step that throws, 0 when the try block completes
FailIndex(xr, b) ==
  LET steps == BuildSteps(xr)
      failing == {i \in DOMAIN steps : steps[i].throws \/ validateThrows(b, i)}
  IN IF commonMetadataThrows(xr) THEN 1
     ELSE IF failing = {} THEN 0
     ELSE CHOOSE i \in failing : \A j \in failing : i <= j

\* the steps whose resource was stored before the try block ended at step f
StoredSteps(steps, f) == IF f = 0 THEN steps ELSE SubSeq(steps, 1, f - 1)

\* desiredComposed[key] = resource, in order: the last assignment to a key wins
Assign(mapping, steps) ==
  [k \in DOMAIN mapping \cup {steps[i].key : i \in DOMAIN steps} |->
     LET at == {i \in DOMAIN steps : steps[i].key = k} IN
       IF at = {} THEN mapping[k]
       ELSE steps[CHOOSE i \in at : \A j \in at : j <= i].resource]

----------------------------------------------------------------------------
(* Status aggregation *)

Truthy(v) == v # Undefined /\ v # <<>>

\* observedComposed?.[key]?.resource?.status?.atProvider?.id
ObservedId(observed, key) == IF key \in DOMAIN observed THEN observed[key] ELSE Undefined

\* the ids pushed by the loop onto the list selected by Wanted(subnet)
PushedIds(xr, observed, Wanted(_)) ==
  LET subs == Subnets(xr)
      ids == [i \in DOMAIN subs |->
                IF Wanted(subs[i]) THEN ObservedId(observed, SubnetKey(subs[i]))
                ELSE Undefined]
  IN SelectSeq(ids, Truthy)

AnySubnet(subnet) == TRUE

IsPublic(subnet) == subnet.type = T_public

IsPrivate(subnet) == subnet.type # T_public /\ subnet.type = T_private

subnetIds(xr, observed) == PushedIds(xr, observed, AnySubnet)

publicSubnetIds(xr, observed) == PushedIds(xr, observed, IsPublic)

privateSubnetIds(xr, observed) == PushedIds(xr, observed, IsPrivate)

securityGroupIds(observed) ==
  IF Truthy(ObservedId(observed, K_sg)) THEN <<ObservedId(observed, K_sg)>> ELSE <<>>

StatusFields ==
  {"privateSubnetIds", "publicSubnetIds", "securityGroupIds", "subnetIds", "vpcId"}

\* a status that spreads every field, empty or not
xrStatus_Unfiltered(xr, observed) ==
  [f \in StatusFields |->
     CASE f = "privateSubnetIds" -> privateSubnetIds(xr, observed)
       [] f = "publicSubnetIds" -> publicSubnetIds(xr, observed)
       [] f = "securityGroupIds" -> securityGroupIds(observed)
       [] f = "subnetIds" -> subnetIds(xr, observed)
       [] OTHER -> ObservedId(observed, K_vpc)]

\* a status whose securityGroupIds is spread without the length test
xrStatus_SecurityGroupsAlways(xr, observed) ==
  LET all == [f \in StatusFields |->
                CASE f = "privateSubnetIds" -> privateSubnetIds(xr, observed)
                  [] f = "publicSubnetIds" -> publicSubnetIds(xr, observed)
                  [] f = "securityGroupIds" -> securityGroupIds(observed)
                  [] f = "subnetIds" -> subnetIds(xr, observed)
                  [] OTHER -> ObservedId(observed, K_vpc)]
  IN [f \in {x \in StatusFields : x = "securityGroupIds" \/ Truthy(all[x])} |-> all[f]]

\* every field is spread into xrStatus only when it is non-empty
xrStatus(xr, observed) ==
  LET all == [f \in StatusFields |->
                CASE f = "privateSubnetIds" -> privateSubnetIds(xr, observed)
                  [] f = "publicSubnetIds" -> publicSubnetIds(xr, observed)
                  [] f = "securityGroupIds" -> securityGroupIds(observed)
                  [] f = "subnetIds" -> subnetIds(xr, observed)
                  [] OTHER -> ObservedId(observed, K_vpc)]
  IN [f \in {x \in StatusFields : Truthy(all[x])} |-> all[f]]

----------------------------------------------------------------------------
(* The SDK calls of RunFunction.  A desired state is                        *)
(* [present, resources]; present is FALSE when req.desired is undefined.    *)

NoState == [present |-> FALSE, resources |-> EmptyObject]

\* a composer that always starts from an empty mapping
getDesiredComposedResources_Fresh(rq) == EmptyObject

\* getDesiredComposedResources(req): the request's own mapping when it has one
getDesiredComposedResources(rq) ==
  IF rq.desired.present THEN rq.desired.resources ELSE EmptyObject

\* a response that starts from a copy of the desired state taken at the call
to_Snapshot(rq, desiredComposed) ==
  [returned |-> TRUE,
   desired |-> rq.desired,
   statusSet |-> FALSE,
   status |-> EmptyObject,
   results |-> <<>>]

\* rsp = to(req): the response starts from the request's desired state object,
\* so the stores into that object's mapping are visible through rsp
to(rq, desiredComposed) ==
  [returned |-> TRUE,
   desired |-> IF rq.desired.present
                 THEN [present |-> TRUE, resources |-> desiredComposed]
                 ELSE NoState,
   statusSet |-> FALSE,
   status |-> EmptyObject,
   results |-> <<>>]

\* setDesiredComposedResources(rsp, desiredComposed)
setDesiredComposedResources(r, desiredComposed) ==
  [r EXCEPT !.desired =
     [present |-> TRUE, resources |-> Spread(r.desired.resources, desiredComposed)]]

\* setDesiredCompositeStatus({ rsp, status })
setDesiredCompositeStatus(r, status) ==
  [r EXCEPT !.statusSet = TRUE, !.status = status]

\* a success that leaves no result in the response
normal_Dropped(r, message) == r

\* normal(rsp, message) and fatal(rsp, message)
normal(r, message) ==
  [r EXCEPT !.results = Append(@, [severity |-> "normal", message |-> message])]

fatal(r, message) ==
  [r EXCEPT !.results = Append(@, [severity |-> "fatal", message |-> message])]

\* error.message of what the failing step f threw
ErrorMessage(xr, steps, f) ==
  IF commonMetadataThrows(xr) THEN [error |-> "TypeError", at |-> <<>>]
  ELSE IF steps[f].throws THEN [error |-> "TypeError", at |-> steps[f].key]
  ELSE [error |-> "ValidationError", at |-> steps[f].key]

\* a composer that leaves out the resources that are already observed
Outcome_SkipObserved(xr, b, rq) ==
  LET all == BuildSteps(xr)
      f == FailIndex(xr, b)
      steps == SelectSeq(StoredSteps(all, f), LAMBDA st : st.key \notin DOMAIN rq.observed)
      desiredComposed == Assign(getDesiredComposedResources(rq), steps)
      initial == to(rq, desiredComposed)
  IN [rsp |->
        IF f = 0
          THEN normal(
                 setDesiredCompositeStatus(
                   setDesiredComposedResources(initial, desiredComposed),
                   xrStatus(xr, rq.observed)),
                 "processing complete")
          ELSE fatal(initial, ErrorMessage(xr, all, f)),
      req |->
        IF rq.desired.present
          THEN [rq EXCEPT !.desired.resources = desiredComposed]
          ELSE rq]

\* RunFunction(req): the response it returns (rsp) and the request object
\* after the call (req), whose desired state, when it carries one, holds the
\* mapping that RunFunction stored into
Outcome(xr, b, rq) ==
  LET steps == BuildSteps(xr)
      f == FailIndex(xr, b)
      desiredComposed == Assign(getDesiredComposedResources(rq), StoredSteps(steps, f))
      initial == to(rq, desiredComposed)
  IN [rsp |->
        IF f = 0
          THEN normal(
                 setDesiredCompositeStatus(
                   setDesiredComposedResources(initial, desiredComposed),
                   xrStatus(xr, rq.observed)),
                 "processing complete")
          ELSE fatal(initial, ErrorMessage(xr, steps, f)),
      req |->
        IF rq.desired.present
          THEN [rq EXCEPT !.desired.resources = desiredComposed]
          ELSE rq]

NoResponse ==
  [returned |-> FALSE, desired |-> NoState, statusSet |-> FALSE,
   status |-> EmptyObject, results |-> <<>>]

\* sent records the desired state as the caller delivered it
NoRequest ==
  [arrived |-> FALSE, observed |-> EmptyObject, desired |-> NoState, sent |-> NoState]

----------------------------------------------------------------------------
(* Inputs *)

T_usWest2a == <<"u","s","-","w","e","s","t","-","2","a">>
T_za == <<"z","a">>
T_zb == <<"z","b">>
T_cidr18 == <<"1","9","2",".","1","6","8",".","0",".","0","/","1","8">>
T_cidr8 == <<"1",".","2","/","8">>
T_ns == <<"n","s">>
T_net == <<"n","e","t">>
T_region == <<"r","1">>
T_vpcCidr == <<"1","0","/","8">>
T_observe == <<"O","b","s","e","r","v","e">>
T_pc == <<"p","c">>
T_idPrefix == <<"i","d","-">>
K_other == <<"o","t","h","e","r">>

SubnetSpec(az, cidr, type) == [availabilityZone |-> az, cidrBlock |-> cidr, type |-> type]

CandidateSubnets ==
  {SubnetSpec(T_usWest2a, T_cidr18, T_public),
   SubnetSpec(T_za, T_cidr8, T_private),
   SubnetSpec(T_za, T_cidr8, Undefined)}

\* lists with a subnet that has no cidrBlock, alone and after a well-formed one
MalformedLists ==
  {<<SubnetSpec(T_zb, Undefined, T_private)>>,
   <<SubnetSpec(T_za, T_cidr8, T_private), SubnetSpec(T_zb, Undefined, T_private)>>}

\* two subnets of one zone and one type that differ in their CIDR only
SharedZoneLists ==
  {<<SubnetSpec(T_za, T_cidr8, T_private), SubnetSpec(T_za, T_cidr18, T_private)>>}

SubnetLists ==
  UNION {[1..n -> CandidateSubnets] : n \in 0..MaxSubnets}
  \cup {l \in MalformedLists : Len(l) <= MaxSubnets}
  \cup {l \in SharedZoneLists : Len(l) <= MaxSubnets}

Intent(namespace, given, subnets) ==
  [name |-> T_net, namespace |-> namespace, params |-> TRUE,
   id |-> T_net, region |-> T_region, vpcCidrBlock |-> T_vpcCidr,
   subnets |-> subnets,
   managementPolicies |-> IF given THEN <<T_observe>> ELSE Undefined,
   providerConfigName |-> IF given THEN T_pc ELSE Undefined]

\* a composite whose spec has no parameters block
BareIntent(namespace) ==
  [Intent(namespace, FALSE, <<>>) EXCEPT !.params = FALSE]

Intents ==
  {Intent(ns, given, subnets) :
     ns \in {Undefined, T_ns}, given \in BOOLEAN, subnets \in SubnetLists}
  \cup {BareIntent(ns) : ns \in {Undefined, T_ns}}

\* the provider-assigned id of the observed resource stored under key
IdOf(key) == T_idPrefix \o key

\* keys whose observed resource may or may not carry an id yet
StatusKeys(xr) ==
  {K_vpc, K_sg} \cup
  {SubnetKey(Subnets(xr)[i]) : i \in {j \in DOMAIN Subnets(xr) :
                                        ~formatCIDRThrows(Subnets(xr)[j].cidrBlock)}}

\* observed mappings: nothing observed yet, or the internet gateway has its id
\* and any of the status keys have theirs
ObservedMappings(xr) ==
  {EmptyObject} \cup
  {[k \in have \cup {K_igw} |-> IdOf(k)] : have \in SUBSET StatusKeys(xr)}

\* a resource put into the desired state by an earlier pipeline step
Earlier == [apiVersion |-> "v1", kind |-> "Earlier"]

PriorDesired ==
  {NoState,
   [present |-> TRUE, resources |-> EmptyObject],
   [present |-> TRUE, resources |-> [k \in {K_vpc, K_other} |-> Earlier]]}

\* a function that is not the first step of its pipeline
LaterDesired == {d \in PriorDesired : d.present}

\* no helper function has been called on its own
NoCall == [fn |-> "none"]

NoCalls == [before |-> NoCall, last |-> NoCall]

----------------------------------------------------------------------------
(* Actions *)

\* a rejecting validator is explored for the intents that leave the common
\* fields to their defaults
Plain(xr) == xr.namespace = Undefined /\ Param(xr, "providerConfigName") = Undefined

Init ==
  /\ intent \in Intents
  /\ bad \in 0..(IF Plain(intent) THEN Len(BuildSteps(intent)) ELSE 0)
  /\ req = NoRequest
  /\ rsp = NoResponse
  /\ published = EmptyObject
  /\ calls = NoCalls

\* a request for the intent arrives with an observed mapping and desired state
Receive(observed, desired) ==
  /\ ~req.arrived
  /\ req' = [arrived |-> TRUE, observed |-> observed, desired |-> desired,
             sent |-> desired]
  /\ rsp' = NoResponse
  /\ UNCHANGED <<intent, bad, published, calls>>

\* Function.RunFunction(req) on the request in flight (possibly once more)
RunFunction ==
  /\ req.arrived
  /\ LET out == Outcome(intent, bad, req) IN
       /\ rsp' = out.rsp
       /\ req' = out.req
  /\ UNCHANGED <<intent, bad, published, calls>>

\* the response is handed back to the caller and the request is dropped
Reply ==
  /\ rsp.returned
  /\ req' = NoRequest
  /\ rsp' = NoResponse
  /\ UNCHANGED <<intent, bad, published, calls>>

Next ==
  \/ \E observed \in ObservedMappings(intent), desired \in PriorDesired :
       Receive(observed, desired)
  \/ RunFunction
  \/ Reply

Spec == Init /\ [][Next]_vars

----------------------------------------------------------------------------
(* Reconciliation passes: in each pass the caller sends a fresh request     *)
(* with the observed mapping of the moment, RunFunction answers it, and     *)
(* the caller merges the emitted status into the status it has published.   *)

\* field-by-field merge: fields absent from the emitted status are kept
Merge(pub, r) == IF r.statusSet THEN Spread(pub, r.status) ELSE pub

\* the response is handed back and the caller publishes the merged status
Publish ==
  /\ rsp.returned
  /\ published' = Merge(published, rsp)
  /\ req' = NoRequest
  /\ rsp' = NoResponse
  /\ UNCHANGED <<intent, bad, calls>>

InitReconcile ==
  /\ intent \in {xr \in Intents : Plain(xr)}
  /\ bad \in {0, Len(BuildSteps(intent))}
  /\ req = NoRequest
  /\ rsp = NoResponse
  /\ published = EmptyObject
  /\ calls = NoCalls

NextReconcile ==
  \/ \E observed \in ObservedMappings(intent), desired \in LaterDesired :
       Receive(observed, desired)
  \/ RunFunction
  \/ Publish

SpecReconcile == InitReconcile /\ [][NextReconcile]_vars

----------------------------------------------------------------------------
(* The naming functions called on their own, as the unit tests call them.  *)
(* calls keeps the last two calls with what they returned.                  *)

T_zaDash1 == <<"z","a","-","1">>
T_cidrSwapped == <<"1","/","2",".","8">>
T_cidrTail == <<"2","/","8">>
T_cidrDashed == <<"1","-","2","/","8">>
T_cidrDots == <<"1","9","2",".",".","1","6","8",".","0",".","1","/","2","4">>
T_cidrV6 == <<"2","0","0","1",":","d","b","8",":",":","1","/","6","4">>

NamingZones == {T_za, T_zaDash1, Undefined}

NamingCidrs ==
  {T_cidr8, T_cidrSwapped, T_cidrTail, T_cidrDashed, T_cidr18, T_cidrDots,
   T_cidrV6, Undefined}

\* the type is a string to formatSubnetName: the text 'undefined' is one
NamingTypes == {T_public, T_private, Undefined, T_undefined}

NamingSubnets ==
  {SubnetSpec(az, cidr, type) :
     az \in NamingZones, cidr \in NamingCidrs, type \in NamingTypes}

\* the record of formatCIDR(cidr): a TypeError or the text returned
CallFormatCIDR(cidr) ==
  [fn |-> "formatCIDR", args |-> cidr, threw |-> formatCIDRThrows(cidr),
   result |-> IF formatCIDRThrows(cidr) THEN Undefined ELSE formatCIDR(cidr)]

\* the record of formatSubnetName({ availabilityZone, cidr, type })
CallFormatSubnetName(subnet) ==
  [fn |-> "formatSubnetName", args |-> subnet,
   threw |-> formatCIDRThrows(subnet.cidrBlock),
   result |-> IF formatCIDRThrows(subnet.cidrBlock)
                THEN Undefined ELSE formatSubnetName(subnet)]

FormatCIDR(cidr) ==
  /\ calls' = [before |-> calls.last, last |-> CallFormatCIDR(cidr)]
  /\ UNCHANGED <<intent, bad, req, rsp, published>>

FormatSubnetName(subnet) ==
  /\ calls' = [before |-> calls.last, last |-> CallFormatSubnetName(subnet)]
  /\ UNCHANGED <<intent, bad, req, rsp, published>>

\* no request is in flight while the helpers are called on their own
InitHelpers ==
  /\ intent = BareIntent(Undefined)
  /\ bad = 0
  /\ req = NoRequest
  /\ rsp = NoResponse
  /\ published = EmptyObject
  /\ calls = NoCalls

NextNaming ==
  \/ \E cidr \in NamingCidrs : FormatCIDR(cidr)
  \/ \E subnet \in NamingSubnets : FormatSubnetName(subnet)

SpecNaming == InitHelpers /\ [][NextNaming]_vars

----------------------------------------------------------------------------
(* Bound of the values handed to the comparator *)

MaxItems == 2

----------------------------------------------------------------------------
(* The structural comparator of the test helpers.  A JavaScript value is a *)
(* record tagged with its type; an array holds its items in order and an   *)
(* object its entries [k, v] in insertion order, which is the order of     *)
(* for (const key in expected).                                            *)

V_null == [t |-> "null"]

V_undefined == [t |-> "undefined"]

Num(n) == [t |-> "number", n |-> n]

Str(text) == [t |-> "string", s |-> text]

Bool(b) == [t |-> "boolean", b |-> b]

Arr(items) == [t |-> "array", items |-> items]

Entry(key, value) == [k |-> key, v |-> value]

Obj(entries) == [t |-> "object", entries |-> entries]

\* the value of a string, number or boolean
Scalar(value) ==
  CASE value.t = "number" -> value.n
    [] value.t = "string" -> value.s
    [] value.t = "boolean" -> value.b

\* typeof value
typeof(value) ==
  IF value.t \in {"null", "array", "object"} THEN "object" ELSE value.t

\* Array.isArray(value)
isArray(value) == value.t = "array"

\* an array index as a property name
IndexText(i) == <<"0", "1", "2", "3", "4">>[i + 1]

\* the entries that for ... in visits: none for null
Entries(value) == IF value.t = "object" THEN value.entries ELSE <<>>

\* Object.prototype.hasOwnProperty.call(actualObj, key): an array owns its
\* indices and length
hasOwnProperty(actualObj, key) ==
  CASE actualObj.t = "object" ->
         \E i \in DOMAIN actualObj.entries : actualObj.entries[i].k = key
    [] actualObj.t = "array" ->
         key = "length" \/ \E i \in DOMAIN actualObj.items : IndexText(i - 1) = key
    [] OTHER -> FALSE

\* actualObj[key] for a key that actualObj owns
Get(actualObj, key) ==
  IF actualObj.t = "array"
    THEN IF key = "length" THEN Num(Len(actualObj.items))
         ELSE actualObj.items[CHOOSE i \in DOMAIN actualObj.items : IndexText(i - 1) = key]
    ELSE actualObj.entries[CHOOSE i \in DOMAIN actualObj.entries :
                             actualObj.entries[i].k = key].v

RECURSIVE JSONstringify(_)
\* JSON.stringify(value), as the JSON value its text denotes: an object loses
\* its undefined members and an undefined array item is written null
JSONstringify(value) ==
  CASE value.t = "array" ->
         Arr([i \in DOMAIN value.items |->
                IF value.items[i] = V_undefined
                  THEN V_null ELSE JSONstringify(value.items[i])])
    [] value.t = "object" ->
         LET kept == SelectSeq(value.entries, LAMBDA e : e.v # V_undefined) IN
           Obj([i \in DOMAIN kept |-> Entry(kept[i].k, JSONstringify(kept[i].v))])
    [] OTHER -> value

\* value === undefined ? 'undefined' : JSON.stringify(value)
Shown(value) ==
  IF value = V_undefined THEN [text |-> "undefined"] ELSE [json |-> JSONstringify(value)]

Ok == [threw |-> FALSE]

\* throw new Error(`${path}: ...`)
Thrown(path, what, expected, got) ==
  [threw |-> TRUE, path |-> path, what |-> what, expected |-> expected, got |-> got]

\* a loop of calls ends at the first one that throws
FirstThrown(results) ==
  LET failed == {i \in DOMAIN results : results[i].threw} IN
    IF failed = {} THEN Ok
    ELSE results[CHOOSE i \in failed : \A j \in failed : i <= j]

\* a wildcard test that lets only undefined through
isWildcard_UndefinedOnly(expected) == expected.t = "undefined"

\* expected === null || expected === undefined
isWildcard(expected) == expected.t \in {"null", "undefined"}

\* a comparison with ==, which converts a string to a number
strictlyEqual_Loose(actual, expected) ==
  \/ actual.t = expected.t /\ Scalar(actual) = Scalar(expected)
  \/ /\ {actual.t, expected.t} = {"number", "string"}
     /\ LET n == IF actual.t = "number" THEN actual.n ELSE expected.n
            text == IF actual.t = "string" THEN actual.s ELSE expected.s
        IN n \in 0..4 /\ text = IndexText(n)

\* actual === expected for a scalar expected
strictlyEqual(actual, expected) ==
  actual.t = expected.t /\ Scalar(actual) = Scalar(expected)

\* a length test that asks for exactly as many items
tooShort_NotEqual(actual, expected) == Len(actual.items) # Len(expected.items)

\* actual.length < expected.length
tooShort(actual, expected) == Len(actual.items) < Len(expected.items)

RECURSIVE assertDeepPartialMatch(_, _, _)
assertDeepPartialMatch(actual, expected, path) ==
  IF isWildcard(expected) THEN Ok
  ELSE IF typeof(expected) # "object" THEN
    IF ~strictlyEqual(actual, expected)
      THEN Thrown(path, "Expected", Shown(expected), Shown(actual))
      ELSE Ok
  ELSE IF isArray(expected) THEN
    IF ~isArray(actual)
      THEN Thrown(path, "Expected array", [type |-> "array"], [type |-> typeof(actual)])
    ELSE IF tooShort(actual, expected)
      THEN Thrown(path, "Expected at least",
                  [items |-> Len(expected.items)], [items |-> Len(actual.items)])
    ELSE FirstThrown(
           [i \in DOMAIN expected.items |->
              assertDeepPartialMatch(actual.items[i], expected.items[i],
                                     path \o <<"[", IndexText(i - 1), "]">>)])
  ELSE IF typeof(actual) # "object" \/ actual = V_null
    THEN Thrown(path, "Expected object", [type |-> "object"], [type |-> typeof(actual)])
  ELSE FirstThrown(
         [i \in DOMAIN Entries(expected) |->
            LET key == Entries(expected)[i].k IN
              IF ~hasOwnProperty(actual, key)
                THEN Thrown(path, "Missing property", [property |-> key],
                            [nothing |-> TRUE])
                ELSE assertDeepPartialMatch(Get(actual, key), Entries(expected)[i].v,
                                            path \o <<".", key>>)])

\* values of fixtures and responses: scalars, null, undefined, and arrays and
\* objects of them, one level of nesting
CompareLeaves == {V_null, V_undefined, Num(1), Num(2), Str("1"), Bool(TRUE)}

CompareItems ==
  {V_null, V_undefined, Num(1), Num(2), Str("1"),
   Arr(<<Num(1)>>), Obj(<<Entry("a", Num(1))>>)}

CompareArrays ==
  {Arr(items) : items \in UNION {[1..n -> CompareItems] : n \in 0..MaxItems}}
  \cup {Arr(<<Num(1), Num(2), Num(3)>>)}

CompareKeys == {"a", "b"}

CompareObjects ==
  {Obj(<<>>), Obj(<<Entry("0", Num(1))>>), Obj(<<Entry("length", Num(1))>>)}
  \cup {Obj(<<Entry(k, v)>>) : k \in CompareKeys, v \in CompareItems}
  \cup UNION {{Obj(<<Entry(k1, v1), Entry(k2, v2)>>) :
                 k2 \in CompareKeys \ {k1},
                 v1 \in CompareItems, v2 \in CompareItems} : k1 \in CompareKeys}

CompareValues == CompareLeaves \cup CompareArrays \cup CompareObjects

RootPath == <<"root">>

\* the record of assertDeepPartialMatch(actual, expected, 'root')
CallAssertDeepPartialMatch(actual, expected) ==
  [fn |-> "assertDeepPartialMatch", actual |-> actual, expected |-> expected,
   result |-> assertDeepPartialMatch(actual, expected, RootPath)]

\* a test calls the comparator and keeps what it returned or threw
AssertDeepPartialMatch(actual, expected) ==
  /\ calls.last = NoCall
  /\ calls' = [calls EXCEPT !.last = CallAssertDeepPartialMatch(actual, expected)]
  /\ UNCHANGED <<intent, bad, req, rsp, published>>

----------------------------------------------------------------------------
(* assertResources: a fixture's expectations against the desired resources *)
(* of a response.  Optional members are present or absent in the domain of *)
(* their record; labels and annotations are entries [k, v] in order.       *)

L_compositionResourceName == "crossplane.io/composition-resource-name"

Has(object, member) == member \in DOMAIN object

\* entries?.[key] === value
MemberIs(entries, key, value) ==
  \E i \in DOMAIN entries : entries[i].k = key /\ entries[i].v = value

\* Object.keys(desiredResources).find(annotation === name || key === name):
\* the position of the resource found, 0 when there is none
resourceKey(desiredResources, name) ==
  LET found == {i \in DOMAIN desiredResources :
                  \/ /\ Has(desiredResources[i].resource.metadata, "annotations")
                     /\ MemberIs(desiredResources[i].resource.metadata.annotations,
                                 L_compositionResourceName, name)
                  \/ desiredResources[i].key = name}
  IN IF found = {} THEN 0 ELSE CHOOSE i \in found : \A j \in found : i <= j

\* the checks of one expected resource against the resource found for it
assertResource(actualResource, expected) ==
  IF Has(expected, "kind") /\ actualResource.kind # expected.kind
    THEN Thrown(<<expected.name>>, "wrong kind",
                [text |-> expected.kind], [text |-> actualResource.kind])
  ELSE IF Has(expected, "apiVersion") /\ actualResource.apiVersion # expected.apiVersion
    THEN Thrown(<<expected.name>>, "wrong apiVersion",
                [text |-> expected.apiVersion], [text |-> actualResource.apiVersion])
  ELSE IF /\ Has(expected, "metadata")
          /\ Has(expected.metadata, "namespace")
          /\ ~(/\ Has(actualResource.metadata, "namespace")
               /\ actualResource.metadata.namespace = expected.metadata.namespace)
    THEN Thrown(<<expected.name>>, "wrong namespace",
                [text |-> expected.metadata.namespace], [nothing |-> TRUE])
  ELSE IF /\ Has(expected, "metadata")
          /\ Has(expected.metadata, "labels")
          /\ \E i \in DOMAIN expected.metadata.labels :
               ~(/\ Has(actualResource.metadata, "labels")
                 /\ MemberIs(actualResource.metadata.labels,
                             expected.metadata.labels[i].k,
                             expected.metadata.labels[i].v))
    THEN Thrown(<<expected.name>>, "missing label",
                [labels |-> expected.metadata.labels], [nothing |-> TRUE])
  ELSE IF Has(expected, "spec")
    THEN assertDeepPartialMatch(actualResource.spec, expected.spec,
                                <<expected.name, " spec mismatch">>)
  ELSE Ok

\* for (const expected of resourcesArray): find, then check
assertResources(desiredResources, resourcesArray) ==
  FirstThrown(
    [n \in DOMAIN resourcesArray |->
       LET expected == resourcesArray[n]
           at == resourceKey(desiredResources, expected.name)
       IN IF at = 0
            THEN Thrown(<<expected.name>>, "not found in response",
                        [text |-> expected.name], [nothing |-> TRUE])
            ELSE assertResource(desiredResources[at].resource, expected)])

\* optional members: each of the given sets holds the member's values, the
\* empty record standing for its absence
Optional(member, values) ==
  {[m \in {} |-> TRUE]} \cup {[m \in {member} |-> v] : v \in values}

Members(a, b) == [m \in DOMAIN a \cup DOMAIN b |-> IF m \in DOMAIN a THEN a[m] ELSE b[m]]

TestMetadata(namespaces, labels, annotations) ==
  {Members(Members(ns, l), a) :
     ns \in Optional("namespace", namespaces),
     l \in Optional("labels", labels),
     a \in Optional("annotations", annotations)}

\* the resources a response may hold under the key vpc
ActualResources ==
  {[apiVersion |-> ApiVersion, kind |-> kind, metadata |-> metadata, spec |-> spec] :
     kind \in {"VPC", "Subnet"},
     metadata \in TestMetadata({"ns"},
                   {<<Entry("team", "x")>>, <<Entry("team", "y")>>},
                   {<<Entry("note", "x")>>, <<Entry("note", "y")>>,
                    <<Entry(L_compositionResourceName, "alias")>>}),
     spec \in {Obj(<<Entry("a", Num(1))>>),
               Obj(<<Entry("a", Num(1)), Entry("b", Num(2))>>),
               Obj(<<Entry("a", Num(2))>>)}}

\* what a fixture may expect of one resource
ExpectedResources ==
  {Members(Members(Members(Members([name |-> name], kind), api), metadata), spec) :
     name \in {"vpc", "alias", "missing"},
     kind \in Optional("kind", {"VPC"}),
     api \in Optional("apiVersion", {ApiVersion, "v1"}),
     metadata \in Optional("metadata",
                    TestMetadata({"ns"}, {<<Entry("team", "x")>>},
                                 {<<Entry("note", "x")>>})),
     spec \in Optional("spec", {Obj(<<Entry("a", Num(1))>>)})}

\* the record of assertResources(response, [expected])
CallAssertResources(actualResource, expected) ==
  [fn |-> "assertResources", actual |-> actualResource, expected |-> expected,
   result |-> assertResources(<<[key |-> "vpc", resource |-> actualResource]>>,
                              <<expected>>)]

\* a test checks one expected resource against a response
AssertResources(actualResource, expected) ==
  /\ calls.last = NoCall
  /\ calls' = [calls EXCEPT !.last = CallAssertResources(actualResource, expected)]
  /\ UNCHANGED <<intent, bad, req, rsp, published>>

\* the test is over
EndTest ==
  /\ calls.last # NoCall
  /\ calls' = NoCalls
  /\ UNCHANGED <<intent, bad, req, rsp, published>>

NextCompare ==
  \/ /\ calls.last = NoCall
     /\ \E actual \in CompareValues, expected \in CompareValues :
          AssertDeepPartialMatch(actual, expected)
  \/ /\ calls.last = NoCall
     /\ \E actualResource \in ActualResources, expected \in ExpectedResources :
          AssertResources(actualResource, expected)
  \/ EndTest

SpecCompare == InitHelpers /\ [][NextCompare]_vars

----------------------------------------------------------------------------
(* Properties *)

Out == rsp.desired.resources

HasResult(r, severity) == \E i \in DOMAIN r.results : r.results[i].severity = severity

Succeeded == rsp.returned /\ FailIndex(intent, bad) = 0

Range(f) == {f[x] : x \in DOMAIN f}

Field(status, f) == IF f \in DOMAIN status THEN status[f] ELSE <<>>

\* C1: when validate() throws for a resource at any build position, the
\* response carries a fatal result and its desired mapping holds nothing that
\* this invocation composed: it is the mapping the request carried (empty
\* when the request carried none).
C1_AtomicFailure ==
  (rsp.returned /\ bad # 0 /\ FailIndex(intent, bad) = bad)
    => /\ HasResult(rsp, "fatal")
       /\ Out = req.sent.resources

C4_Key(subnet) ==
  LET cidr == subnet.cidrBlock
      dashed == [i \in DOMAIN cidr |->
                   IF cidr[i] = "." \/ cidr[i] = "/" THEN "-" ELSE cidr[i]]
      type == IF subnet.type = Undefined THEN T_undefined ELSE subnet.type
  IN <<"s","u","b","n","e","t","-">> \o subnet.availabilityZone \o <<"-">>
       \o dashed \o <<"-">> \o type

C4_ExampleKey ==
  <<"s","u","b","n","e","t","-","u","s","-","w","e","s","t","-","2","a","-",
    "1","9","2","-","1","6","8","-","0","-","0","-","1","8","-",
    "p","u","b","l","i","c">>

\* C4: the subnet key is 'subnet-' + availabilityZone + '-' +
\* formatCIDR(cidrBlock) + '-' + type; the Subnet is stored under it and the
\* observed subnet is looked up under it, so that an id observed there, and no
\* other, reaches subnetIds; (us-west-2a, 192.168.0.0/18, public) is stored
\* under subnet-us-west-2a-192-168-0-0-18-public.
C4_SubnetKey ==
  Succeeded =>
    LET subs == Subnets(intent) IN
      /\ \A i \in DOMAIN subs :
           /\ C4_Key(subs[i]) \in DOMAIN Out
           /\ Out[C4_Key(subs[i])].kind = "Subnet"
           /\ Out[C4_Key(subs[i])].spec.forProvider.availabilityZone
                = subs[i].availabilityZone
           /\ C4_Key(subs[i]) \in DOMAIN req.observed
                => req.observed[C4_Key(subs[i])] \in Range(Field(rsp.status, "subnetIds"))
           /\ subs[i] = SubnetSpec(T_usWest2a, T_cidr18, T_public)
                => /\ C4_Key(subs[i]) = C4_ExampleKey
                   /\ C4_ExampleKey \in DOMAIN Out
      /\ Range(Field(rsp.status, "subnetIds"))
           = {req.observed[k] : k \in {C4_Key(subs[i]) : i \in DOMAIN subs}
                                        \cap DOMAIN req.observed}

\* the example subnet was composed and its observed id reported
C4_Witness ==
  /\ Succeeded
  /\ \E i \in DOMAIN Subnets(intent) :
       Subnets(intent)[i] = SubnetSpec(T_usWest2a, T_cidr18, T_public)
  /\ C4_ExampleKey \in DOMAIN Out
  /\ C4_ExampleKey \in DOMAIN req.observed
  /\ req.observed[C4_ExampleKey] \in Range(Field(rsp.status, "subnetIds"))

\* the status of the spec's aggregation rule: an absent type counts as private
C5_Reference(xr, observed) ==
  LET subs == Subnets(xr)
      effective(subnet) == IF subnet.type = Undefined THEN T_private ELSE subnet.type
      ids(type) ==
        SelectSeq([i \in DOMAIN subs |->
                     IF type \in {Undefined, effective(subs[i])}
                       THEN ObservedId(observed, SubnetKey(subs[i]))
                       ELSE Undefined],
                  Truthy)
      one(key) == IF key \in DOMAIN observed THEN observed[key] ELSE <<>>
  IN [f \in StatusFields |->
        CASE f = "subnetIds" -> ids(Undefined)
          [] f = "publicSubnetIds" -> ids(T_public)
          [] f = "privateSubnetIds" -> ids(T_private)
          [] f = "securityGroupIds" ->
               IF K_sg \in DOMAIN observed THEN <<observed[K_sg]>> ELSE <<>>
          [] OTHER -> one(K_vpc)]

\* C5: the emitted status equals the reference aggregation over the observed
\* mapping: ids of observed subnets in subnetIds and in publicSubnetIds or
\* privateSubnetIds by type (absent type = private), vpcId from 'vpc',
\* securityGroupIds from 'sg'.
C5_StatusReference ==
  Succeeded =>
    \A f \in StatusFields :
      Field(rsp.status, f) = C5_Reference(intent, req.observed)[f]

\* C6: a status field is emitted only if a contributing id was observed; the
\* status never holds an empty sequence or an empty vpcId, and it has no field
\* when nothing was observed.
C6_SparseStatus ==
  rsp.returned =>
    LET subs == Subnets(intent)
        seen(Wanted(_)) ==
          \E i \in DOMAIN subs :
            Wanted(subs[i]) /\ SubnetKey(subs[i]) \in DOMAIN req.observed
    IN /\ DOMAIN rsp.status \subseteq StatusFields
       /\ \A f \in DOMAIN rsp.status : rsp.status[f] # <<>> /\ rsp.status[f] # Undefined
       /\ "vpcId" \in DOMAIN rsp.status => K_vpc \in DOMAIN req.observed
       /\ "securityGroupIds" \in DOMAIN rsp.status => K_sg \in DOMAIN req.observed
       /\ "subnetIds" \in DOMAIN rsp.status => seen(AnySubnet)
       /\ "publicSubnetIds" \in DOMAIN rsp.status => seen(IsPublic)
       /\ "privateSubnetIds" \in DOMAIN rsp.status => seen(IsPrivate)
       /\ req.observed = EmptyObject => rsp.status = EmptyObject

\* a status with some fields known and the others left out
C6_Witness ==
  /\ Succeeded
  /\ Subnets(intent) # <<>>
  /\ "vpcId" \in DOMAIN rsp.status
  /\ "subnetIds" \notin DOMAIN rsp.status
  /\ "securityGroupIds" \notin DOMAIN rsp.status

\* C7: across reconciliation passes with a fixed intent and an observed mapping
\* that changes freely, the status published by a merging caller never loses a
\* field and never has a field replaced by an empty value.
C7_NoRegression ==
  [][/\ DOMAIN published \subseteq DOMAIN published'
     /\ \A f \in DOMAIN published' :
          published'[f] # <<>> /\ published'[f] # Undefined]_vars

\* a pass whose status lacks a field that an earlier pass published
C7_Witness ==
  /\ rsp.returned
  /\ rsp.statusSet
  /\ \E f \in DOMAIN published : f \notin DOMAIN rsp.status
  /\ \E f \in DOMAIN rsp.status : f \notin DOMAIN published

\* C8: calling RunFunction once more on the very same request object, with
\* the same intent and observed mapping, returns the same desired mapping and
\* the same status.
C8_Idempotence ==
  rsp.returned =>
    LET again == Outcome(intent, bad, req).rsp IN
      /\ again.desired = rsp.desired
      /\ again.status = rsp.status
      /\ again.statusSet = rsp.statusSet

\* the first call stored into the mapping of the request it is called on again
C8_Witness ==
  /\ rsp.returned
  /\ req.desired.resources # req.sent.resources
  /\ Outcome(intent, bad, req).rsp.desired = rsp.desired

\* C9: the RouteTableAssociation of every subnet entry selects the Subnet of
\* the same entry: its matchLabels access and zone are that Subnet's labels.
C9_SelectorMatchesSubnet ==
  Succeeded =>
    \A i \in DOMAIN Subnets(intent) :
      LET subnet == Subnets(intent)[i]
          labels == Out[SubnetKey(subnet)].metadata["labels"]
          match == Out[RtaKey(subnet)].spec.forProvider.subnetIdSelector.matchLabels
      IN /\ match["access"] = labels["access"]
         /\ match["zone"] = labels["zone"]

\* C10: every Subnet is shaped by its effective type (absent = private):
\* access label = effective type, zone label = availability zone,
\* mapPublicIpOnLaunch exactly when public, the internal-elb tag and no elb
\* tag when private, the elb tag and the network-id tag when public.
C10_SubnetShape ==
  Succeeded =>
    \A i \in DOMAIN Subnets(intent) :
      LET subnet == Subnets(intent)[i]
          effective == IF subnet.type = Undefined THEN T_private ELSE subnet.type
          res == Out[SubnetKey(subnet)]
          tags == DOMAIN res.spec.forProvider.tags
      IN /\ res.metadata["labels"]["access"] = effective
         /\ res.metadata["labels"]["zone"] = subnet.availabilityZone
         /\ res.spec.forProvider.mapPublicIpOnLaunch = (effective = T_public)
         /\ effective = T_private => L_internalElb \in tags /\ L_elb \notin tags
         /\ effective = T_public => L_elb \in tags /\ L_networkId \in tags

\* C11: every resource composed by a successful run carries the intent's
\* namespace when one is given and none otherwise, the network-id label equal
\* to the intent id, the intent's managementPolicies (['*'] when absent) and
\* providerConfigRef {ProviderConfig, providerConfigName} ('default' when
\* absent).
C11_CommonFields ==
  Succeeded =>
    \A i \in DOMAIN BuildSteps(intent) :
      LET res == Out[BuildSteps(intent)[i].key] IN
        /\ intent.namespace # Undefined
             => /\ "namespace" \in DOMAIN res.metadata
                /\ res.metadata["namespace"] = intent.namespace
        /\ intent.namespace = Undefined => "namespace" \notin DOMAIN res.metadata
        /\ res.metadata["labels"][L_networkId] = intent.id
        /\ res.spec.managementPolicies
             = (IF intent.managementPolicies = Undefined
                  THEN <<(<<"*">>)>> ELSE intent.managementPolicies)
        /\ res.spec.providerConfigRef
             = [kind |-> "ProviderConfig",
                name |-> IF intent.providerConfigName = Undefined
                           THEN <<"d","e","f","a","u","l","t">>
                           ELSE intent.providerConfigName]

\* a namespaced intent with its own policies and subnets was composed
C11_Witness ==
  /\ Succeeded
  /\ intent.namespace = T_ns
  /\ intent.managementPolicies # Undefined
  /\ Subnets(intent) # <<>>
  /\ Out[SubnetKey(Subnets(intent)[1])].metadata["namespace"] = T_ns

\* C12: an intent with absent fields (a subnet's type or cidrBlock,
\* managementPolicies, providerConfigName, namespace, subnets, the whole
\* parameters block) never ends in a fatal result on account of the absence:
\* when no validate() rejects anything, RunFunction composes and reports
\* success.
C12_MissingFieldsTolerated ==
  (rsp.returned /\ bad = 0)
    => /\ ~HasResult(rsp, "fatal")
       /\ HasResult(rsp, "normal")
       /\ FixedKeys \subseteq DOMAIN Out

\* C13: RunFunction does not mutate its inputs: after the call, succeeded or
\* failed, the request's desired-resource mapping holds exactly the entries
\* it was delivered with, and the call leaves the observed mapping as it is.
C13_NoInputMutation ==
  /\ rsp.returned => req.desired.resources = req.sent.resources
  /\ req.arrived => Outcome(intent, bad, req).req.observed = req.observed

\* C14: the naming function is collision-free: two subnets whose
\* (availabilityZone, cidrBlock, type) triples differ get different names,
\* hence different 'subnet-' and 'rta-' keys, an absent type included.
C14_CollisionFree ==
  (/\ calls.before.fn = "formatSubnetName" /\ ~calls.before.threw
   /\ calls.last.fn = "formatSubnetName" /\ ~calls.last.threw
   /\ calls.before.args # calls.last.args)
    => /\ calls.before.result # calls.last.result
       /\ SubnetKey(calls.before.args) # SubnetKey(calls.last.args)
       /\ RtaKey(calls.before.args) # RtaKey(calls.last.args)

\* C15: formatCIDR replaces every '.' and every '/' by '-' and keeps every
\* other character, position by position: the output is as long as the input,
\* 192..168.0.1/24 gives 192--168-0-1-24 and 2001:db8::1/64 gives
\* 2001:db8::1-64.
C15_FormatCIDR ==
  (calls.last.fn = "formatCIDR" /\ ~calls.last.threw) =>
    LET in == calls.last.args
        out == calls.last.result
    IN /\ Len(out) = Len(in)
       /\ \A i \in 1..Len(in) :
            /\ (in[i] = "." \/ in[i] = "/") => out[i] = "-"
            /\ (in[i] # "." /\ in[i] # "/") => out[i] = in[i]
       /\ in = <<"1","9","2",".",".","1","6","8",".","0",".","1","/","2","4">>
            => out = <<"1","9","2","-","-","1","6","8","-","0","-","1","-","2","4">>
       /\ in = <<"2","0","0","1",":","d","b","8",":",":","1","/","6","4">>
            => out = <<"2","0","0","1",":","d","b","8",":",":","1","-","6","4">>

\* formatCIDR was called on the address with two consecutive dots
C15_Witness ==
  /\ calls.last.fn = "formatCIDR"
  /\ calls.last.args = T_cidrDots
  /\ ~calls.last.threw
  /\ calls.last.result[4] = "-" /\ calls.last.result[5] = "-"

\* the intent with its subnets rearranged by the permutation p
C16_Permuted(xr, p) ==
  [xr EXCEPT !.subnets = [i \in DOMAIN xr.subnets |-> xr.subnets[p[i]]]]

\* C16: the order of intent.subnets makes no observable difference: for the
\* same request, an intent with its subnets permuted gets the same
\* desired-resource mapping and the same status, the id lists compared as
\* ordered sequences.
C16_OrderIrrelevant ==
  Succeeded =>
    \A p \in Permutations(DOMAIN Subnets(intent)) :
      LET delivered == [req EXCEPT !.desired = req.sent]
          other == Outcome(C16_Permuted(intent, p), bad, delivered).rsp
      IN /\ other.desired = rsp.desired
         /\ other.status = rsp.status

Last == calls.last

Compared == Last.fn = "assertDeepPartialMatch"

\* C17: when expected is a keyed structure the comparator succeeds only if
\* actual is a keyed structure (not a scalar, null, absent or a sequence),
\* every key of expected is present in actual (even a key whose expected
\* value is null) and each value matches recursively; keys of actual alone
\* are ignored, so ({a:1,b:2}, {a:1}) succeeds and ({a:1}, {a:1,b:2}) fails.
C17_KeyedRule ==
  (Compared /\ Last.expected.t = "object") =>
    /\ ~Last.result.threw =>
         /\ Last.actual.t = "object"
         /\ \A i \in DOMAIN Last.expected.entries :
              LET e == Last.expected.entries[i] IN
                /\ \E j \in DOMAIN Last.actual.entries : Last.actual.entries[j].k = e.k
                /\ ~assertDeepPartialMatch(Get(Last.actual, e.k), e.v, RootPath).threw
    /\ (/\ Last.actual = Obj(<<Entry("a", Num(1)), Entry("b", Num(2))>>)
        /\ Last.expected = Obj(<<Entry("a", Num(1))>>)) => ~Last.result.threw
    /\ (/\ Last.actual = Obj(<<Entry("a", Num(1))>>)
        /\ Last.expected = Obj(<<Entry("a", Num(1)), Entry("b", Num(2))>>))
         => Last.result.threw

\* C18: when expected is a sequence the comparator succeeds if and only if
\* actual is a sequence at least as long and actual[i] matches expected[i]
\* for every index of expected; trailing elements of actual are ignored, so
\* ([1,2,3], [1,2]) succeeds and ([1], [1,2]) fails.
C18_SequenceRule ==
  (Compared /\ Last.expected.t = "array") =>
    /\ ~Last.result.threw <=>
         /\ Last.actual.t = "array"
         /\ Len(Last.actual.items) >= Len(Last.expected.items)
         /\ \A i \in DOMAIN Last.expected.items :
              ~assertDeepPartialMatch(Last.actual.items[i], Last.expected.items[i],
                                      RootPath).threw
    /\ (/\ Last.actual = Arr(<<Num(1), Num(2), Num(3)>>)
        /\ Last.expected = Arr(<<Num(1), Num(2)>>)) => ~Last.result.threw
    /\ (/\ Last.actual = Arr(<<Num(1)>>)
        /\ Last.expected = Arr(<<Num(1), Num(2)>>)) => Last.result.threw

\* a longer actual sequence matched a shorter expected one
C18_Witness ==
  /\ Compared
  /\ Last.actual = Arr(<<Num(1), Num(2), Num(3)>>)
  /\ Last.expected = Arr(<<Num(1), Num(2)>>)
  /\ ~Last.result.threw

\* C19: when expected is a string, number or boolean the comparator succeeds
\* if and only if actual is the identical scalar, same type and value, with
\* no coercion; an absent, null, sequence or keyed actual fails, and the
\* failure reports the expected value, the actual value and the path.
C19_ScalarRule ==
  (Compared /\ Last.expected.t \in {"string", "number", "boolean"}) =>
    /\ ~Last.result.threw <=> Last.actual = Last.expected
    /\ Last.actual.t \in {"undefined", "null", "array", "object"} => Last.result.threw
    /\ Last.result.threw =>
         /\ Last.result.path = <<"root">>
         /\ Last.result.expected = [json |-> Last.expected]
         /\ Last.result.got =
              (IF Last.actual.t = "undefined" THEN [text |-> "undefined"]
               ELSE IF Last.actual.t \in {"array", "object"}
                 THEN [json |-> JSONstringify(Last.actual)]
               ELSE [json |-> Last.actual])

\* the string '1' was compared with the number 1 and rejected
C19_Witness ==
  /\ Compared
  /\ Last.expected = Num(1)
  /\ Last.actual = Str("1")
  /\ Last.result.threw
  /\ Last.result.what = "Expected"

\* C20: an expected value that is absent or null matches every actual value,
\* at the top level and at any nested position, and this rule comes before
\* the scalar, sequence and keyed rules.
C20_WildcardRule ==
  Compared =>
    /\ Last.expected.t \in {"null", "undefined"} => ~Last.result.threw
    /\ (/\ Last.expected.t = "array" /\ Last.actual.t = "array"
        /\ Len(Last.actual.items) >= Len(Last.expected.items)
        /\ \A i \in DOMAIN Last.expected.items :
             Last.expected.items[i].t \in {"null", "undefined"})
         => ~Last.result.threw
    /\ (/\ Last.expected.t = "object" /\ Last.actual.t = "object"
        /\ \A i \in DOMAIN Last.expected.entries :
             /\ Last.expected.entries[i].v.t \in {"null", "undefined"}
             /\ \E j \in DOMAIN Last.actual.entries :
                  Last.actual.entries[j].k = Last.expected.entries[i].k)
         => ~Last.result.threw

\* a null expected value matched a scalar, and a nested one matched an object
C20_Witness ==
  /\ Compared
  /\ ~Last.result.threw
  /\ \/ Last.expected = V_null /\ Last.actual = Num(1)
     \/ /\ Last.expected = Obj(<<Entry("a", V_null)>>)
        /\ Last.actual = Obj(<<Entry("a", Obj(<<Entry("a", Num(1))>>))>>)

\* C21: every comparator failure names the first divergence: the error
\* carries the path of the diverging field itself (a key b missing under root
\* is reported at root.b, a bad element i at path[i]) together with the
\* expected and the actual value, and nothing after the first mismatch, in
\* expected's key and index order, is reported.
C21_FirstDivergence ==
  (Compared /\ Last.result.threw) =>
    LET err == Last.result IN
      /\ "json" \in DOMAIN err.expected
      /\ DOMAIN err.got \cap {"json", "text"} # {}
      /\ err.what = "Missing property"
           => /\ Len(err.path) >= 3
              /\ err.path[Len(err.path) - 1] = "."
              /\ err.path[Len(err.path)] = err.expected.property
      /\ (/\ Last.actual = Obj(<<Entry("a", Num(1))>>)
          /\ Last.expected = Obj(<<Entry("a", Num(1)), Entry("b", Num(2))>>))
           => err.path = <<"root", ".", "b">>
      /\ (Last.expected.t = "array" /\ Last.actual.t = "array"
          /\ Len(Last.actual.items) >= Len(Last.expected.items))
           => \E i \in DOMAIN Last.expected.items :
                /\ SubSeq(err.path, 1, 4) = <<"root", "[", IndexText(i - 1), "]">>
                /\ \A j \in 1..(i - 1) :
                     ~assertDeepPartialMatch(Last.actual.items[j],
                                             Last.expected.items[j], RootPath).threw

ResourcesCompared == Last.fn = "assertResources"

\* the member of the expected metadata is specified and the actual resource
\* does not have each of its entries
C22_EntriesDiffer(member) ==
  /\ Has(Last.expected, "metadata")
  /\ Has(Last.expected.metadata, member)
  /\ \E i \in DOMAIN Last.expected.metadata[member] :
       ~(/\ Has(Last.actual.metadata, member)
         /\ MemberIs(Last.actual.metadata[member],
                     Last.expected.metadata[member][i].k,
                     Last.expected.metadata[member][i].v))

\* some field that the expectation specifies is missing from or differs in
\* the actual resource
C22_SpecifiedFieldDiffers ==
  \/ Has(Last.expected, "kind") /\ Last.expected.kind # Last.actual.kind
  \/ Has(Last.expected, "apiVersion") /\ Last.expected.apiVersion # Last.actual.apiVersion
  \/ /\ Has(Last.expected, "metadata")
     /\ Has(Last.expected.metadata, "namespace")
     /\ ~(/\ Has(Last.actual.metadata, "namespace")
          /\ Last.actual.metadata.namespace = Last.expected.metadata.namespace)
  \/ C22_EntriesDiffer("labels")
  \/ C22_EntriesDiffer("annotations")
  \/ /\ Has(Last.expected, "spec")
     /\ \E i \in DOMAIN Last.expected.spec.entries :
          LET e == Last.expected.spec.entries[i] IN
            ~MemberIs(Last.actual.spec.entries, e.k, e.v)

\* C22: assertResources fails whenever a field that the expectation
\* specifies (kind, apiVersion, metadata.namespace, a label, an annotation, a
\* spec field) is missing from or differs in the resource found under the
\* name, and it succeeds when only unspecified fields differ.
C22_ResourceExpectations ==
  (ResourcesCompared /\ Last.expected.name = "vpc") =>
    (Last.result.threw <=> C22_SpecifiedFieldDiffers)

\* the request of the pass as the caller delivered it
Delivered == [req EXCEPT !.desired = req.sent]

\* the observed mappings of the first pass, with nothing observed, and of a
\* pass in which every resource has its id
C23_OtherPasses ==
  {EmptyObject, [k \in StatusKeys(intent) \cup {K_igw} |-> IdOf(k)]}

\* C23: over reconciliation passes with a fixed intent the desired-resource
\* mapping of a pass, key set and contents, does not depend on the observed
\* mapping of that pass: it is what the composer builds from the intent on
\* top of the entries the request carried, and any other observed mapping
\* gives the same; the observed state shows only in the status.
C23_StableDesired ==
  rsp.returned =>
    /\ Out = Assign(req.sent.resources,
                    IF req.sent.present \/ FailIndex(intent, bad) = 0
                      THEN StoredSteps(BuildSteps(intent), FailIndex(intent, bad))
                      ELSE <<>>)
    /\ \A observed \in C23_OtherPasses :
         Outcome(intent, bad, [Delivered EXCEPT !.observed = observed]).rsp.desired
           = rsp.desired

\* a later pass saw another observed mapping than the passes published so far
C23_Witness ==
  /\ Succeeded
  /\ published # EmptyObject
  /\ rsp.status # published
  /\ req.observed # EmptyObject
  /\ FixedKeys \subseteq DOMAIN Out

\* the Subnets of the output that a label selector matches
C24_Selected(matchLabels) ==
  {k \in DOMAIN Out :
     /\ Out[k].kind = "Subnet"
     /\ \A l \in DOMAIN matchLabels :
          /\ l \in DOMAIN Out[k].metadata["labels"]
          /\ Out[k].metadata["labels"][l] = matchLabels[l]}

\* C24: in a successful output for an intent whose subnet triples are
\* pairwise distinct, the (access, zone) selector of each
\* RouteTableAssociation matches exactly one Subnet of the output, the one
\* produced from the same entry, also when two subnets share zone and type
\* and differ in their CIDR only.
C24_SelectorWellFormed ==
  (/\ Succeeded
   /\ \A i, j \in DOMAIN Subnets(intent) :
        i # j => Subnets(intent)[i] # Subnets(intent)[j])
    => \A i \in DOMAIN Subnets(intent) :
         LET subnet == Subnets(intent)[i] IN
           C24_Selected(Out[RtaKey(subnet)].spec.forProvider.subnetIdSelector.matchLabels)
             = {SubnetKey(subnet)}

RECURSIVE C25_Extensions(_)
\* the values obtained from value by appending one element to a sequence or
\* adding one key to a keyed structure, at any depth
C25_Extensions(value) ==
  CASE value.t = "array" ->
         {Arr(Append(value.items, extra)) : extra \in {Num(2), V_null}}
         \cup UNION {{Arr([value.items EXCEPT ![i] = inner]) :
                        inner \in C25_Extensions(value.items[i])} :
                     i \in DOMAIN value.items}
    [] value.t = "object" ->
         {Obj(Append(value.entries, Entry("z", extra))) : extra \in {Num(2), V_null}}
         \cup UNION {{Obj([value.entries EXCEPT ![i] = Entry(value.entries[i].k, inner)]) :
                        inner \in C25_Extensions(value.entries[i].v)} :
                     i \in DOMAIN value.entries}
    [] OTHER -> {}

\* C25: the comparator ignores extra fields: when
\* assertDeepPartialMatch(actual, expected) succeeds it also succeeds for
\* every actual' obtained from actual by adding keys to a keyed structure or
\* appending elements to a sequence, at any depth, expected unchanged.
C25_ExtraFieldsIgnored ==
  (Compared /\ ~Last.result.threw) =>
    \A extended \in C25_Extensions(Last.actual) :
      ~assertDeepPartialMatch(extended, Last.expected, RootPath).threw

\* C26: every invocation ends in exactly one outcome: success, with the
\* composed resources, the composite status and the one normal result
\* 'processing complete' and no fatal result, or failure, with one fatal
\* result holding the error message, no normal result and no composite status
\* set by the invocation.
C26_OneOutcome ==
  rsp.returned =>
    LET success ==
          /\ Len(rsp.results) = 1
          /\ rsp.results[1].severity = "normal"
          /\ rsp.results[1].message = "processing complete"
          /\ rsp.statusSet
          /\ rsp.desired.present
          /\ \A i \in DOMAIN BuildSteps(intent) : BuildSteps(intent)[i].key \in DOMAIN Out
        failure ==
          /\ Len(rsp.results) = 1
          /\ rsp.results[1].severity = "fatal"
          /\ rsp.results[1].message.error \in {"TypeError", "ValidationError"}
          /\ ~rsp.statusSet
          /\ rsp.status = EmptyObject
    IN /\ success \/ failure
       /\ ~(success /\ failure)
       /\ success <=> FailIndex(intent, bad) = 0

\* an invocation that failed on a TypeError and answered with a fatal result
C26_Witness ==
  /\ rsp.returned
  /\ bad = 0
  /\ HasResult(rsp, "fatal")
  /\ ~HasResult(rsp, "normal")
  /\ ~rsp.statusSet

\* the keys the composer writes for the intent
C27_ComposerKeys ==
  FixedKeys
    \cup {SubnetKey(Subnets(intent)[i]) : i \in DOMAIN Subnets(intent)}
    \cup {RtaKey(Subnets(intent)[i]) : i \in DOMAIN Subnets(intent)}

\* C27: on success every entry of the request's desired-resource mapping
\* whose key the composer does not write is in the response's desired mapping
\* unchanged, and an entry whose key the composer writes is replaced by the
\* composer's resource.
C27_PassThrough ==
  Succeeded =>
    \A k \in DOMAIN req.sent.resources :
      /\ k \in DOMAIN Out
      /\ k \notin C27_ComposerKeys => Out[k] = req.sent.resources[k]
      /\ k \in C27_ComposerKeys
           => /\ Out[k] # req.sent.resources[k]
              /\ \E i \in DOMAIN BuildSteps(intent) :
                   BuildSteps(intent)[i].key = k /\ BuildSteps(intent)[i].resource = Out[k]

\* an earlier step's resource was kept and its entry under vpc was replaced
C27_Witness ==
  /\ Succeeded
  /\ K_other \in DOMAIN req.sent.resources
  /\ K_vpc \in DOMAIN req.sent.resources
  /\ Out[K_other] = Earlier
  /\ Out[K_vpc].kind = "VPC"

\* C28: in every emitted status the public and the private ids partition
\* subnetIds: each id of subnetIds is in exactly one of publicSubnetIds and
\* privateSubnetIds, each id of those is in subnetIds, and the lengths add
\* up, a missing field counting as empty.
C28_Partition ==
  (rsp.returned /\ rsp.statusSet) =>
    LET all == Field(rsp.status, "subnetIds")
        public == Field(rsp.status, "publicSubnetIds")
        private == Field(rsp.status, "privateSubnetIds")
    IN /\ \A id \in Range(all) : (id \in Range(public)) # (id \in Range(private))
       /\ Range(public) \cup Range(private) \subseteq Range(all)
       /\ Len(all) = Len(public) + Len(private)

\* C29: the status reports each observed subnet at most once and only for
\* subnets of the intent: subnetIds has at most one entry per distinct subnet
\* key (also when the intent lists a triple twice), it is never longer than
\* the number of Subnet resources in the desired mapping, and an observed
\* resource under another key contributes no id.
C29_AtMostOnce ==
  Succeeded =>
    LET all == Field(rsp.status, "subnetIds")
        keys == {SubnetKey(Subnets(intent)[i]) : i \in DOMAIN Subnets(intent)}
    IN /\ \A i, j \in DOMAIN all : i # j => all[i] # all[j]
       /\ Len(all) <= Cardinality(keys)
       /\ Len(all) <= Cardinality({k \in DOMAIN Out : Out[k].kind = "Subnet"})
       /\ Range(all) \subseteq {req.observed[k] : k \in keys \cap DOMAIN req.observed}

\* C30: no key derived from a subnet ('subnet-'+name, 'rta-'+name) is one of
\* the eight fixed keys and no 'subnet-' key is an 'rta-' key, whatever the
\* subnet list of the intent; hence in a successful output each fixed key holds the resource of its kind, each
\* 'subnet-' key a Subnet and each 'rta-' key a RouteTableAssociation.
C30_DisjointKeys ==
  LET subs == Subnets(intent)
      usable == {sn \in {subs[i] : i \in DOMAIN subs} : ~formatCIDRThrows(sn.cidrBlock)}
  IN /\ \A a \in usable :
          /\ SubnetKey(a) \notin FixedKeys
          /\ RtaKey(a) \notin FixedKeys
          /\ \A b \in usable : SubnetKey(a) # RtaKey(b)
     /\ Succeeded =>
          /\ Cardinality(FixedKeys) = 8
          /\ Out[K_vpc].kind = "VPC" /\ Out[K_igw].kind = "InternetGateway"
          /\ Out[K_rt].kind = "RouteTable"
          /\ Out[K_mrta].kind = "MainRouteTableAssociation"
          /\ Out[K_route].kind = "Route" /\ Out[K_sg].kind = "SecurityGroup"
          /\ Out[K_sgrPostgres].kind = "SecurityGroupRule"
          /\ Out[K_sgrMysql].kind = "SecurityGroupRule"
          /\ \A i \in DOMAIN subs :
               /\ Out[SubnetKey(subs[i])].kind = "Subnet"
               /\ Out[RtaKey(subs[i])].kind = "RouteTableAssociation"

\* two different subnets were composed next to the fixed resources
C30_Witness ==
  /\ Succeeded
  /\ Len(Subnets(intent)) = 2
  /\ req.sent.resources = EmptyObject
  /\ Cardinality(DOMAIN Out) = 12
  /\ Out[SubnetKey(Subnets(intent)[1])].kind = "Subnet"
  /\ Out[RtaKey(Subnets(intent)[2])].kind = "RouteTableAssociation"

====
